---- MODULE Spec2Model ----
(***************************************************************************)
(* Model of scripts/remove_cache_blocks.py.                                *)
(*                                                                         *)
(* A text is a sequence of chunks.  A chunk is a TLA+ string holding a     *)
(* piece of the file; the file is the concatenation of its chunks.  The    *)
(* characters the regular expressions tell apart (")", ";", ",", "{", "}", *)
(* a space, a line break) are always chunks of their own, a run of digits  *)
(* is one chunk, and every other chunk is a word that holds none of them   *)
(* except inside a literal of the patterns ("if (cached" holds a space and *)
(* a "(", which no character class of the patterns separates).  A literal  *)
(* of a pattern is therefore a sequence of whole chunks and a character    *)
(* class a set of chunks.                                                  *)
(***************************************************************************)
EXTENDS Integers, Sequences, FiniteSets, TLC

VARIABLES
    \* Pattern engine: one call of remove_cache_blocks(content)
    input,      \* the argument of the call
    content,    \* the local variable `content`, rewritten by each sub()
    origin,     \* origin[j]: position in input of the chunk content[j]
    pc,         \* next statement of remove_cache_blocks: 1..5 the sub() calls,
                \* 6 the return, 0 once it has returned
    matched,    \* the rules whose sub() removed something in this call
    \* Batch runner: one run of main()
    fs,             \* path of each file that exists -> its text
    perm,           \* path -> what open() is allowed on the file
    idx,            \* position of the for loop in PROVIDERS
    rpc,            \* next statement of main: "for", "if", "done", or "raised"
                    \* once an exception has left main
    original,       \* local `original`
    modified,       \* local `modified`
    total_changes,  \* local `total_changes`
    reads,          \* paths opened for reading, in order
    writes,         \* paths opened for writing, in order
    notices,        \* the lines printed, in order
    fs0             \* the file system main() started on

engineVars == <<input, content, origin, pc, matched>>
runnerVars == <<fs, perm, idx, rpc, original, modified, total_changes,
                reads, writes, notices, fs0>>
vars == <<input, content, origin, pc, matched,
          fs, perm, idx, rpc, original, modified, total_changes,
          reads, writes, notices, fs0>>

----------------------------------------------------------------------------
(* Bounds *)

\* Number of line fragments an input text of the engine is built from.
MaxFrags == 3

\* Number of entries of PROVIDERS a run of main() iterates over.
NumProviders == 3

----------------------------------------------------------------------------
(* Regular expressions of the re module, over chunks *)

NL == "\n"

\* \s : the chunks made of whitespace
Whitespace == {" ", NL}

\* \d : the chunks made of digits
Digits == {"3600"}

\* Character classes: \s, [^)], [^;], \d
InClass(cls, c) ==
    CASE cls = "\\s"  -> c \in Whitespace
      [] cls = "[^)]" -> c # ")"
      [] cls = "[^;]" -> c # ";"
      [] cls = "\\d"  -> c \in Digits

\* The chunks that begin with the literal p, for the literals of the
\* lookahead (log\.|try); a literal at the end of a lookahead may end inside
\* a chunk.
BeginsWith(p) ==
    CASE p = "log." -> {"log.debug("}
      [] p = "try"  -> {"try", "tryNext("}

\* Pattern items
Bol        == [op |-> "bol"]                          \* ^ under re.MULTILINE
Lit(c)     == [op |-> "lit", c |-> c]                 \* a literal chunk
Star(cls)  == [op |-> "rep", min |-> 0, cls |-> cls]  \* cls*  (greedy)
Plus(cls)  == [op |-> "rep", min |-> 1, cls |-> cls]  \* cls+  (greedy)
Ahead(re)  == [op |-> "ahead", re |-> re]             \* (?=re)
Alt(ps)    == [op |-> "alt", ps |-> ps]               \* (p1|p2), literals

\* Length of the longest run of chunks of class cls in s from position i.
RECURSIVE Run(_, _, _)
Run(cls, s, i) ==
    IF i <= Len(s) /\ InClass(cls, s[i]) THEN 1 + Run(cls, s, i + 1) ELSE 0

\* MatchFrom(re, k, s, i): items k.. of re matched against s from position
\* i, by backtracking in the order of the re module: a greedy repetition
\* takes the longest run first and gives chunks back one at a time until
\* the rest of the pattern matches.  The result is the position after the
\* match, or 0 when there is none.
RECURSIVE MatchFrom(_, _, _, _)
RECURSIVE GiveBack(_, _, _, _, _)
MatchFrom(re, k, s, i) ==
    IF k > Len(re) THEN i
    ELSE LET it == re[k] IN
         CASE it.op = "bol" ->
                IF i = 1 \/ s[i - 1] = NL THEN MatchFrom(re, k + 1, s, i) ELSE 0
           [] it.op = "lit" ->
                IF i <= Len(s) /\ s[i] = it.c
                THEN MatchFrom(re, k + 1, s, i + 1) ELSE 0
           [] it.op = "alt" ->
                IF i <= Len(s) /\ \E p \in it.ps : s[i] \in BeginsWith(p)
                THEN MatchFrom(re, k + 1, s, i + 1) ELSE 0
           [] it.op = "ahead" ->
                IF MatchFrom(it.re, 1, s, i) # 0
                THEN MatchFrom(re, k + 1, s, i) ELSE 0
           [] it.op = "rep" ->
                GiveBack(re, k, s, i, Run(it.cls, s, i))

GiveBack(re, k, s, i, n) ==
    IF n < re[k].min THEN 0
    ELSE LET e == MatchFrom(re, k + 1, s, i + n) IN
         IF e # 0 THEN e ELSE GiveBack(re, k, s, i, n - 1)

\* The positions of s that pattern.sub('', s) keeps, from position i on, in
\* order: the scan looks for the leftmost match, drops it and goes on after
\* it.  No pattern of the script matches the empty string.
RECURSIVE KeptFrom(_, _, _)
KeptFrom(re, s, i) ==
    IF i > Len(s) THEN <<>>
    ELSE LET e == MatchFrom(re, 1, s, i) IN
         IF e > i THEN KeptFrom(re, s, e)
         ELSE <<i>> \o KeptFrom(re, s, i + 1)

Kept(re, s) == KeptFrom(re, s, 1)

\* s restricted to the positions K
Pick(s, K) == [j \in 1..Len(K) |-> s[K[j]]]

\* pattern.sub('', s)
sub(re, s) == Pick(s, Kept(re, s))

----------------------------------------------------------------------------
(* remove_cache_blocks *)

S == Star("\\s")

\* Faulty variant of pattern1: the pattern stops after the lookup line and leaves
\* the guard out.
pattern1_lookup_only ==
    <<Bol, S, Lit("const cached = getCached("), Plus("[^)]"), Lit(")"), Lit(";"),
      S, Lit(NL)>>

\* r'^\s*const cached = getCached\([^)]+\);\s*\n\s*if \(cached\) return cached;\s*\n'
pattern1 ==
    <<Bol, S, Lit("const cached = getCached("), Plus("[^)]"), Lit(")"), Lit(";"),
      S, Lit(NL),
      S, Lit("if (cached"), Lit(")"), Lit(" "), Lit("return cached"), Lit(";"),
      S, Lit(NL)>>

\* r'^\s*const cached = getCached\([^)]+\);\s*\n\s*if \(cached\) \{\s*\n\s*return cached;\s*\n\s*\}\s*\n'
pattern2 ==
    <<Bol, S, Lit("const cached = getCached("), Plus("[^)]"), Lit(")"), Lit(";"),
      S, Lit(NL),
      S, Lit("if (cached"), Lit(")"), Lit(" "), Lit("{"),
      S, Lit(NL),
      S, Lit("return cached"), Lit(";"),
      S, Lit(NL),
      S, Lit("}"),
      S, Lit(NL)>>

\* Faulty variant of pattern3: the pattern asks for the call of its comment,
\* setCache(..., result);
pattern3_result_last ==
    <<Bol, S, Lit("setCache("), Plus("[^;]"), Lit("result"), Lit(")"), Lit(";"),
      S, Lit(NL)>>

\* r'^\s*setCache\([^;]+\);\s*\n'
pattern3 ==
    <<Bol, S, Lit("setCache("), Plus("[^;]"), Lit(")"), Lit(";"), S, Lit(NL)>>

\* r'^\s*setCache\([^;]+,\s*\d+\);\s*\n'
pattern4 ==
    <<Bol, S, Lit("setCache("), Plus("[^;]"), Lit(","), S, Plus("\\d"),
      Lit(")"), Lit(";"), S, Lit(NL)>>

\* r'^\s*const cacheKey = [^;]+;\s*\n(?=\s*(log\.|try))'
pattern_unused_key ==
    <<Bol, S, Lit("const cacheKey = "), Plus("[^;]"), Lit(";"), S, Lit(NL),
      Ahead(<<S, Alt({"log.", "try"})>>)>>

remove_cache_blocks(text) ==
    sub(pattern_unused_key,
        sub(pattern4, sub(pattern3, sub(pattern2, sub(pattern1, text)))))

----------------------------------------------------------------------------
(* Input texts of the engine *)

\* The lines the input texts are built from: the shapes the comments of
\* remove_cache_blocks name, the code that surrounds them in a provider
\* file, and shapes near them that the patterns were not written for.
LookupLine   == <<"const cached = getCached(", "cacheKey", ")", ";", NL>>
NestedLookup == <<"const cached = getCached(", "makeKey(", "id", ")", ")", ";", NL>>
Guard1       == <<"if (cached", ")", " ", "return cached", ";", NL>>
Guard1Eof    == <<"if (cached", ")", " ", "return cached", ";">>
Guard2       == <<"if (cached", ")", " ", "{", NL,
                  " ", "return cached", ";", NL,
                  "}", NL>>
Store        == <<"setCache(", "cacheKey", ",", " ", "result", ")", ";", NL>>
StoreTtl     == <<"setCache(", "cacheKey", ",", " ", "result", ",", " ", "3600",
                  ")", ";", NL>>
StoreNoSemi  == <<"setCache(", "cacheKey", ",", " ", "result", ")", NL>>
KeyDecl      == <<"const cacheKey = ", "makeKey(", "id", ")", ";", NL>>
TryLine      == <<"try", " ", "{", NL>>
LogLine      == <<"log.debug(", "cacheKey", ")", ";", NL>>
TryNextLine  == <<"tryNext(", "id", ")", ";", NL>>
BlankLine    == <<NL>>

Fragments ==
    {LookupLine, NestedLookup, Guard1, Guard1Eof, Guard2, Store, StoreTtl,
     StoreNoSemi, KeyDecl, TryLine, LogLine, TryNextLine, BlankLine}

RECURSIVE Concat(_)
Concat(ss) == IF ss = <<>> THEN <<>> ELSE Head(ss) \o Concat(Tail(ss))

\* A text that does not end with a line break is a file without a final
\* line break: the unterminated line is the last one.
Inputs ==
    {Concat(ss) : ss \in UNION {[1..n -> Fragments \ {Guard1Eof}] : n \in 1..MaxFrags}}
    \cup
    {Concat(ss) \o Guard1Eof :
        ss \in UNION {[1..n -> Fragments \ {Guard1Eof}] : n \in 0..(MaxFrags - 1)}}

----------------------------------------------------------------------------
(* The engine as a state machine: one call of remove_cache_blocks *)

RunnerIdle ==
    /\ fs = <<>> /\ perm = <<>> /\ fs0 = <<>>
    /\ idx = 0 /\ rpc = "idle"
    /\ original = <<>> /\ modified = <<>>
    /\ total_changes = 0
    /\ reads = <<>> /\ writes = <<>> /\ notices = <<>>

\* remove_cache_blocks(content) is entered.
Init ==
    /\ input \in Inputs
    /\ content = input
    /\ origin = [j \in 1..Len(input) |-> j]
    /\ pc = 1
    /\ matched = {}
    /\ RunnerIdle

\* content = pattern.sub('', content), as the n-th statement of the function
Rewrite(n, pattern) ==
    LET K == Kept(pattern, content) IN
    /\ content' = Pick(content, K)
    /\ origin' = Pick(origin, K)
    /\ matched' = IF Len(K) < Len(content) THEN matched \cup {n} ELSE matched
    /\ pc' = n + 1
    /\ UNCHANGED <<input>>
    /\ UNCHANGED runnerVars

\* content = pattern1.sub('', content)
ApplyPattern1 ==
    /\ pc = 1
    /\ Rewrite(1, pattern1)

\* content = pattern2.sub('', content)
ApplyPattern2 ==
    /\ pc = 2
    /\ Rewrite(2, pattern2)

\* content = pattern3.sub('', content)
ApplyPattern3 ==
    /\ pc = 3
    /\ Rewrite(3, pattern3)

\* content = pattern4.sub('', content)
ApplyPattern4 ==
    /\ pc = 4
    /\ Rewrite(4, pattern4)

\* content = pattern_unused_key.sub('', content)
ApplyUnusedKey ==
    /\ pc = 5
    /\ Rewrite(5, pattern_unused_key)

\* return content
Return ==
    /\ pc = 6
    /\ pc' = 0
    /\ UNCHANGED <<input, content, origin, matched>>
    /\ UNCHANGED runnerVars

Returned == pc = 0

Next ==
    \/ ApplyPattern1
    \/ ApplyPattern2
    \/ ApplyPattern3
    \/ ApplyPattern4
    \/ ApplyUnusedKey
    \/ Return

Spec == Init /\ [][Next]_vars

----------------------------------------------------------------------------
(* Lines of a text, for the statements about the engine *)

\* The positions at which a line of s begins.
LineStarts(s) == {i \in 1..Len(s) : i = 1 \/ s[i - 1] = NL}

\* The last position of the line of s that begins at i: its line break, or
\* the end of the text when the last line has none.
RECURSIVE LineEnd(_, _)
LineEnd(s, i) == IF i >= Len(s) \/ s[i] = NL THEN i ELSE LineEnd(s, i + 1)

Terminated(s, i) == s[LineEnd(s, i)] = NL

\* The line that begins at i without its indentation and its line break.
RECURSIVE Unindent(_)
Unindent(l) == IF l # <<>> /\ Head(l) = " " THEN Unindent(Tail(l)) ELSE l
Body(s, i) ==
    LET e == LineEnd(s, i) IN
    Unindent(SubSeq(s, i, IF s[e] = NL THEN e - 1 ELSE e))

IsBlank(s, i) == Body(s, i) = <<>>

\* The beginning of the line after the one at i (beyond Len(s) if none).
After(s, i) == LineEnd(s, i) + 1

\* The beginning of the first line after the one at i that is not blank.
RECURSIVE AfterBlanks(_, _)
AfterBlanks(s, i) ==
    LET n == After(s, i) IN
    IF n <= Len(s) /\ IsBlank(s, n) THEN AfterBlanks(s, n) ELSE n

\* const cached = getCached(...);
IsLookup(s, i) ==
    LET b == Body(s, i) IN
    /\ Len(b) >= 4
    /\ b[1] = "const cached = getCached("
    /\ b[Len(b) - 1] = ")" /\ b[Len(b)] = ";"

\* ... with an argument list free of ")"
IsPlainLookup(s, i) ==
    /\ IsLookup(s, i)
    /\ \A j \in 2..(Len(Body(s, i)) - 2) : Body(s, i)[j] # ")"

\* The line after the last line of the guard that begins at line g, or 0
\* when no guard begins there.
GuardEnd(s, g) ==
    IF g > Len(s) THEN 0
    ELSE IF Body(s, g) = <<"if (cached", ")", " ", "return cached", ";">>
    THEN After(s, g)
    ELSE IF /\ Body(s, g) = <<"if (cached", ")", " ", "{">>
            /\ After(s, g) <= Len(s)
            /\ Body(s, After(s, g)) = <<"return cached", ";">>
            /\ After(s, After(s, g)) <= Len(s)
            /\ Body(s, After(s, After(s, g))) = <<"}">>
    THEN After(s, After(s, After(s, g)))
    ELSE 0

\* The positions of the lookup line at i and of the guard that follows it
\* on the next line; {} when the line at i is no lookup line or no guard
\* follows it.
GuardedLookup(s, i) ==
    IF IsLookup(s, i) /\ GuardEnd(s, After(s, i)) # 0
    THEN i..(GuardEnd(s, After(s, i)) - 1)
    ELSE {}

\* The positions of the input that are still in content.
Alive == {origin[j] : j \in 1..Len(origin)}

\* const cacheKey = ...;
IsKeyDecl(s, i) ==
    LET b == Body(s, i) IN
    /\ Len(b) >= 3
    /\ b[1] = "const cacheKey = "
    /\ b[Len(b)] = ";"
    /\ Terminated(s, i)

IsLogCall(s, i)  == i <= Len(s) /\ Body(s, i) # <<>> /\ Body(s, i)[1] = "log.debug("
IsTryBlock(s, i) == i <= Len(s) /\ Body(s, i) = <<"try", " ", "{">>

\* The lines the comments of remove_cache_blocks name as the shapes of the
\* rules begin with one of these chunks.
ShapeHeads ==
    {"const cached = getCached(", "if (cached", "return cached", "}",
     "setCache(", "const cacheKey = "}

IsShapeLine(s, i) == Body(s, i) # <<>> /\ Body(s, i)[1] \in ShapeHeads

HasChunk(s, c) == \E j \in 1..Len(s) : s[j] = c

----------------------------------------------------------------------------
(* Statements about the engine, checked under Spec *)

\* C1: remove_cache_blocks is idempotent: applied to its own output it
\* returns that output unchanged.
C1_Idempotent ==
    Returned => remove_cache_blocks(content) = content

\* C2 as stated: wherever a lookup line "const cached = getCached(...);" is
\* immediately followed by the guard, in its one-line or its three-line
\* form, the output holds none of the lines of the two.
C2_EveryGuardedLookupRemoved ==
    Returned =>
        \A i \in LineStarts(input) : GuardedLookup(input, i) \cap Alive = {}

\* The guarded lookups the amended C2 covers: the argument list of the
\* lookup holds no ")" and the last line of the guard ends with a line
\* break.
PlainUnits ==
    {GuardedLookup(input, i) :
        i \in {l \in LineStarts(input) :
                 /\ IsPlainLookup(input, l)
                 /\ GuardedLookup(input, l) # {}
                 /\ \A m \in GuardedLookup(input, l) :
                        m + 1 \notin GuardedLookup(input, l) => input[m] = NL}}

\* C2 amended: a lookup line whose argument list holds no ")", immediately
\* followed by the guard in either form, every line ending with a line
\* break, is removed together with every line of the guard: after each
\* statement of the function the lines of the two are all present or all
\* gone, and once patterns 1 and 2 have been applied they are all gone.
C2_PlainGuardedLookupRemoved ==
    \A U \in PlainUnits :
        /\ U \subseteq Alive \/ U \cap Alive = {}
        /\ pc \notin {1, 2} => U \cap Alive = {}

\* C2 witness: a lookup followed by the three-line guard was removed by
\* pattern 2 while other lines of the input were kept.
C2_Witness ==
    /\ Returned
    /\ 2 \in matched
    /\ content # <<>>
    /\ \E i \in LineStarts(input) :
        /\ GuardedLookup(input, i) \in PlainUnits
        /\ Body(input, After(input, i)) = <<"if (cached", ")", " ", "{">>
        /\ GuardedLookup(input, i) \cap Alive = {}

\* The positions of content that pattern_unused_key.sub keeps.
KeptByUnusedKey == {Kept(pattern_unused_key, content)[j] :
                        j \in 1..Len(Kept(pattern_unused_key, content))}

\* C3: in the text left by rules 1-4, a "const cacheKey = ...;" line is
\* removed by the last rule if and only if the line that follows it (blank
\* lines aside) is a log call or a block-opening try line, and that line is
\* itself kept.
C3_KeyRemovedIffLogOrTry ==
    pc = 5 =>
        \A i \in LineStarts(content) :
            IsKeyDecl(content, i) =>
                LET n == AfterBlanks(content, i)
                    follows == IsLogCall(content, n) \/ IsTryBlock(content, n)
                IN  /\ (i \notin KeptByUnusedKey) <=> follows
                    /\ follows => n \in KeptByUnusedKey

\* C4: pattern 4 never finds a match in the text patterns 1-3 leave, and the
\* result of the function is the result of the rule chain without pattern 4.
C4_Pattern4Dead ==
    /\ 4 \notin matched
    /\ Returned =>
        content = sub(pattern_unused_key,
                      sub(pattern3, sub(pattern2, sub(pattern1, input))))

\* C4 witness: an input with a store call with a numeric expiry, removed by
\* pattern 3.
C4_Witness ==
    /\ Returned
    /\ HasChunk(input, "3600")
    /\ ~HasChunk(content, "3600")
    /\ 3 \in matched

\* C8: a key declaration the last rule removes is dead: no getCached
\* lookup or setCache call that is left after it, with no other declaration
\* of the key in between, refers to cacheKey.
C8_RemovedKeyIsDead ==
    pc = 5 =>
        \A i \in LineStarts(content) :
            (IsKeyDecl(content, i) /\ i \notin KeptByUnusedKey) =>
                \A u \in (i + 1)..(Len(content) - 1) :
                    ~ /\ u \in KeptByUnusedKey
                      /\ content[u] \in {"const cached = getCached(", "setCache("}
                      /\ content[u + 1] = "cacheKey"
                      /\ \A d \in (i + 1)..(u - 1) : content[d] # "const cacheKey = "

\* C9: only whole lines are deleted (every line of the input is in the
\* output entirely or not at all, in the order of the input), and every
\* line of the input that is neither blank nor one of the shapes of the
\* rules is in the output.
C9_WholeLinesAndOthersKept ==
    Returned =>
        /\ content = [j \in 1..Len(origin) |-> input[origin[j]]]
        /\ \A j \in 1..(Len(origin) - 1) : origin[j] < origin[j + 1]
        /\ \A i \in LineStarts(input) :
            LET L == i..LineEnd(input, i) IN
            /\ L \subseteq Alive \/ L \cap Alive = {}
            /\ (~IsBlank(input, i) /\ ~IsShapeLine(input, i)) => L \subseteq Alive

----------------------------------------------------------------------------
(* main *)

PROVIDERS_DIR == "/NAS/Data/Mes Images Docker/toys_api/lib/providers"

PROVIDERS ==
    <<"lego.js", "igdb.js", "jvc.js", "tmdb.js", "rebrickable.js",
      "bgg-scraper.js", "googlebooks.js", "openlibrary.js",
      "transformerland.js", "coleka.js", "mangadex.js",
      "luluberlu.js", "jikan.js">>

\* The entries of PROVIDERS a run of the model iterates over.
Targets == SubSeq(PROVIDERS, 1, NumProviders)

\* os.path.join(PROVIDERS_DIR, filename)
join(dir, filename) == <<dir, filename>>

TargetPaths == {join(PROVIDERS_DIR, Targets[k]) : k \in 1..Len(Targets)}

\* A file of the providers directory that PROVIDERS does not name.
OtherPath == join(PROVIDERS_DIR, "index.js")

Paths == TargetPaths \cup {OtherPath}

\* The texts the target files hold when main() starts: one the engine
\* leaves as it is although it holds getCached, one it changes without
\* removing either name, one it changes and that keeps one of the names.
ResidueText  == NestedLookup \o Guard1
KeyOnlyText  == KeyDecl \o TryLine
MixedText    == NestedLookup \o Guard1 \o Store \o StoreTtl \o LookupLine \o Guard2
FileTexts    == {ResidueText, KeyOnlyText, MixedText}

\* The text of the file PROVIDERS does not name: the engine would change it.
BlockText    == KeyDecl \o LookupLine \o Guard1 \o TryLine \o StoreTtl

\* remove_cache_blocks(t) for each text t a target file can hold when it is
\* read, computed once.
Transformed == [t \in FileTexts |-> remove_cache_blocks(t)]

\* What open() is allowed on a file: reading and writing, reading only,
\* writing only.
Perms == {"rw", "r-", "-w"}

\* os.path.exists(filepath)
exists(filepath) == filepath \in DOMAIN fs

\* open(filepath, 'r') and f.read() succeed
Readable(filepath) == perm[filepath] \in {"rw", "r-"}

\* open(filepath, 'w') and f.write() succeed
Writable(filepath) == perm[filepath] \in {"rw", "-w"}

\* Faulty variant of count: only getCached is counted, whatever the name.
count_getCached_only(s, name) ==
    Cardinality({j \in 1..Len(s) : s[j] = "const cached = getCached("})

\* s.count(name) for the two names main() counts: the chunks that hold the
\* name hold it once, and no name lies across two chunks.
count(s, name) ==
    LET holder == CASE name = "getCached" -> "const cached = getCached("
                    [] name = "setCache"  -> "setCache("
    IN  Cardinality({j \in 1..Len(s) : s[j] = holder})

\* Faulty variant of differs: the comparison is dropped, every file read is
\* written.
differs_always(a, b) == TRUE

\* original != modified
differs(a, b) == a # b

EngineIdle ==
    /\ input = <<>> /\ content = <<>> /\ origin = <<>>
    /\ pc = -1 /\ matched = {}

\* main() is entered: total_changes = 0, the for loop is at its first entry.
MainInit ==
    /\ \E present \in SUBSET TargetPaths :
        /\ fs \in [present \cup {OtherPath} -> FileTexts \cup {BlockText}]
        /\ perm \in [present \cup {OtherPath} -> Perms]
        /\ \A p \in present : fs[p] \in FileTexts
    /\ fs[OtherPath] = BlockText
    /\ perm[OtherPath] = "rw"
    /\ fs0 = fs
    /\ idx = 1
    /\ rpc = "for"
    /\ original = <<>> /\ modified = <<>>
    /\ total_changes = 0
    /\ reads = <<>> /\ writes = <<>> /\ notices = <<>>
    /\ EngineIdle

filename == Targets[idx]
filepath == join(PROVIDERS_DIR, filename)

\* Faulty variant of SkipMissing: no existence check, open() raises on the missing
\* file.
SkipMissing_unchecked ==
    /\ rpc = "for" /\ idx <= Len(Targets)
    /\ ~exists(filepath)
    /\ rpc' = "raised"
    /\ UNCHANGED <<fs, perm, idx, original, modified, total_changes,
                   reads, writes, notices, fs0>>
    /\ UNCHANGED engineVars

\* if not os.path.exists(filepath): print(...); continue
SkipMissing ==
    /\ rpc = "for" /\ idx <= Len(Targets)
    /\ ~exists(filepath)
    /\ notices' = Append(notices, [kind |-> "introuvable", file |-> filename])
    /\ idx' = idx + 1
    /\ UNCHANGED <<fs, perm, rpc, original, modified, total_changes,
                   reads, writes, fs0>>
    /\ UNCHANGED engineVars

\* original = f.read(); modified = remove_cache_blocks(original)
ReadFile ==
    /\ rpc = "for" /\ idx <= Len(Targets)
    /\ exists(filepath)
    /\ Readable(filepath)
    /\ reads' = Append(reads, filepath)
    /\ original' = fs[filepath]
    /\ modified' = Transformed[fs[filepath]]
    /\ rpc' = "if"
    /\ UNCHANGED <<fs, perm, idx, total_changes, writes, notices, fs0>>
    /\ UNCHANGED engineVars

\* Faulty variant of ReadFails: the failure is caught and the loop goes on.
ReadFails_caught ==
    /\ rpc = "for" /\ idx <= Len(Targets)
    /\ exists(filepath)
    /\ ~Readable(filepath)
    /\ reads' = Append(reads, filepath)
    /\ idx' = idx + 1
    /\ UNCHANGED <<fs, perm, rpc, original, modified, total_changes,
                   writes, notices, fs0>>
    /\ UNCHANGED engineVars

\* open(filepath, 'r') or f.read() raises: nothing in main() catches it.
ReadFails ==
    /\ rpc = "for" /\ idx <= Len(Targets)
    /\ exists(filepath)
    /\ ~Readable(filepath)
    /\ reads' = Append(reads, filepath)
    /\ rpc' = "raised"
    /\ UNCHANGED <<fs, perm, idx, original, modified, total_changes,
                   writes, notices, fs0>>
    /\ UNCHANGED engineVars

\* if original != modified: write, count, print
WriteFile ==
    /\ rpc = "if"
    /\ differs(original, modified)
    /\ Writable(filepath)
    /\ writes' = Append(writes, filepath)
    /\ fs' = [fs EXCEPT ![filepath] = modified]
    /\ LET changes   == count(original, "getCached") + count(original, "setCache")
           remaining == count(modified, "getCached") + count(modified, "setCache")
           removed   == changes - remaining
       IN  /\ total_changes' = total_changes + removed
           /\ notices' = Append(notices, [kind |-> "supprimes", file |-> filename,
                                          removed |-> removed])
    /\ idx' = idx + 1
    /\ rpc' = "for"
    /\ UNCHANGED <<perm, original, modified, reads, fs0>>
    /\ UNCHANGED engineVars

\* What a write of text that raises can have put in the file once open(.., 'w')
\* has truncated it: the first characters of text, from none of them to all of
\* them (the error then comes from the close). The cut falls anywhere, so the
\* last chunk of the result may be the beginning of a chunk of text.
WrittenBeforeError(text) ==
    {SubSeq(text, 1, n) : n \in 0..Len(text)}
    \cup UNION {{SubSeq(text, 1, n - 1) \o <<SubSeq(text[n], 1, m)>> :
                    m \in 1..(Len(text[n]) - 1)} : n \in 1..Len(text)}

\* open(filepath, 'w') raises and the file is as it was, or open() has truncated
\* the file and f.write(modified) or the flush at the end of the with block
\* raises, leaving a beginning of modified: nothing in main() catches either.
WriteFails ==
    /\ rpc = "if"
    /\ differs(original, modified)
    /\ ~Writable(filepath)
    /\ writes' = Append(writes, filepath)
    /\ \E left \in {original} \cup WrittenBeforeError(modified) :
           fs' = [fs EXCEPT ![filepath] = left]
    /\ rpc' = "raised"
    /\ UNCHANGED <<perm, idx, original, modified, total_changes, reads,
                   notices, fs0>>
    /\ UNCHANGED engineVars

\* else: print(... Aucun changement)
NoChange ==
    /\ rpc = "if"
    /\ ~differs(original, modified)
    /\ notices' = Append(notices, [kind |-> "aucun", file |-> filename])
    /\ idx' = idx + 1
    /\ rpc' = "for"
    /\ UNCHANGED <<fs, perm, original, modified, total_changes, reads,
                   writes, fs0>>
    /\ UNCHANGED engineVars

\* The loop is over: print the total.
Summary ==
    /\ rpc = "for" /\ idx > Len(Targets)
    /\ notices' = Append(notices, [kind |-> "total", total |-> total_changes,
                                   files |-> Len(Targets)])
    /\ rpc' = "done"
    /\ UNCHANGED <<fs, perm, idx, original, modified, total_changes,
                   reads, writes, fs0>>
    /\ UNCHANGED engineVars

MainNext ==
    \/ SkipMissing
    \/ ReadFile
    \/ ReadFails
    \/ WriteFile
    \/ WriteFails
    \/ NoChange
    \/ Summary

\* main() is one sequential thread: while a statement can run, it runs.
MainSpec == MainInit /\ [][MainNext]_vars /\ WF_vars(MainNext)

----------------------------------------------------------------------------
(* Statements about main(), checked under MainSpec *)

Range(q) == {q[j] : j \in 1..Len(q)}

TargetPath(k) == join(PROVIDERS_DIR, Targets[k])

\* The target existed when main() started.
Present0(k) == TargetPath(k) \in DOMAIN fs0

\* The engine changes the text the target held when main() started.
Changed0(k) ==
    Present0(k) /\ Transformed[fs0[TargetPath(k)]] # fs0[TargetPath(k)]

\* Reading the target fails, or it has to be rewritten and writing it fails.
Fails0(k) ==
    /\ Present0(k)
    /\ \/ perm[TargetPath(k)] = "-w"
       \/ Changed0(k) /\ perm[TargetPath(k)] = "r-"

\* The paths of the targets that existed when main() started, in the order
\* of PROVIDERS.
RECURSIVE PresentUpTo(_)
PresentUpTo(k) ==
    IF k = 0 THEN <<>>
    ELSE IF Present0(k) THEN Append(PresentUpTo(k - 1), TargetPath(k))
    ELSE PresentUpTo(k - 1)

\* C5: whatever targets are missing, main() runs to completion: a missing
\* target is never read, created or counted, and when the run is over every
\* existing target has been read exactly once, in the order of PROVIDERS,
\* and the summary is the last line printed.
C5_MissingSkippedRunCompletes ==
    /\ [](\A k \in 1..Len(Targets) :
            ~Present0(k) =>
                /\ TargetPath(k) \notin DOMAIN fs
                /\ TargetPath(k) \notin Range(reads) \cup Range(writes)
                /\ \A j \in 1..Len(notices) :
                     (notices[j].kind # "total" /\ notices[j].file = Targets[k])
                     => notices[j].kind = "introuvable")
    /\ [](rpc = "done" =>
            /\ reads = PresentUpTo(Len(Targets))
            /\ Len(notices) = Len(Targets) + 1
            /\ \A k \in 1..Len(Targets) :
                 notices[k].kind # "total" /\ notices[k].file = Targets[k]
            /\ notices[Len(notices)].kind = "total")
    /\ ((\A k \in 1..Len(Targets) : ~Fails0(k)) => <>(rpc = "done"))

\* C5 witness: the run is over, a target was missing and a later target was
\* read.
C5_Witness ==
    /\ rpc = "done"
    /\ \E k, l \in 1..Len(Targets) :
        /\ k < l
        /\ ~Present0(k)
        /\ TargetPath(l) \in Range(reads)

\* The total main() is to report: over the targets the engine changes, the
\* occurrences of the two names in the original text minus those in the
\* transformed text.
RECURSIVE TotalUpTo(_)
TotalUpTo(k) ==
    IF k = 0 THEN 0
    ELSE TotalUpTo(k - 1) +
         IF Changed0(k)
         THEN LET o == fs0[TargetPath(k)]
                  m == Transformed[o]
              IN  (Cardinality({j \in 1..Len(o) : o[j] = "const cached = getCached("})
                   + Cardinality({j \in 1..Len(o) : o[j] = "setCache("}))
                  - (Cardinality({j \in 1..Len(m) : m[j] = "const cached = getCached("})
                     + Cardinality({j \in 1..Len(m) : m[j] = "setCache("}))
         ELSE 0

\* C6: the total reported at the end of main() is the sum, over the files
\* whose transformed text differs from the original, of the occurrences of
\* getCached and setCache in the original minus those in the transformed
\* text; skipped and unchanged files add nothing.
C6_TotalIsSumOverChanged ==
    rpc = "done" =>
        /\ total_changes = TotalUpTo(Len(Targets))
        /\ notices[Len(notices)] = [kind |-> "total",
                                    total |-> TotalUpTo(Len(Targets)),
                                    files |-> Len(Targets)]

\* C6 witness: the run is over with a positive total, and one target was
\* left unchanged although it holds one of the two names.
C6_Witness ==
    /\ rpc = "done"
    /\ total_changes > 0
    /\ \E k \in 1..Len(Targets) :
        /\ Present0(k) /\ ~Changed0(k)
        /\ HasChunk(fs0[TargetPath(k)], "const cached = getCached(")

\* C7: main() opens a file for writing only if it is a target the engine
\* changes; every other path keeps its text and no path is created; and at
\* the end of the run each changed target holds exactly its transformed
\* text and was written once.
C7_WritesIffChanged ==
    /\ \A p \in Range(writes) :
         \E k \in 1..Len(Targets) : p = TargetPath(k) /\ Changed0(k)
    /\ DOMAIN fs = DOMAIN fs0
    /\ \A p \in DOMAIN fs : p \notin Range(writes) => fs[p] = fs0[p]
    /\ rpc = "done" =>
         \A k \in 1..Len(Targets) :
            Changed0(k) =>
                /\ fs[TargetPath(k)] = Transformed[fs0[TargetPath(k)]]
                /\ Cardinality({j \in 1..Len(writes) : writes[j] = TargetPath(k)}) = 1

\* C7 witness: the run is over, one target was rewritten and another, read
\* and found unchanged, was not.
C7_Witness ==
    /\ rpc = "done"
    /\ \E k, l \in 1..Len(Targets) :
        /\ Changed0(k) /\ fs[TargetPath(k)] # fs0[TargetPath(k)]
        /\ Present0(l) /\ ~Changed0(l) /\ TargetPath(l) \in Range(reads)

\* C10: a failure to read or to write an existing target is not caught: the
\* run stops there, no later target is read or written, no summary is
\* printed and the targets rewritten before keep their transformed text;
\* the loop only ever goes past a target that was missing or that was read,
\* and if changed written, without failure.
C10_IoFailureStopsRun ==
    /\ \A k \in 1..(idx - 1) : ~Fails0(k)
    /\ rpc = "raised" =>
        /\ Fails0(idx)
        /\ ~ENABLED MainNext
        /\ \A j \in 1..Len(notices) : notices[j].kind # "total"
        /\ \A k \in (idx + 1)..Len(Targets) :
            /\ TargetPath(k) \notin Range(reads) \cup Range(writes)
            /\ Present0(k) => fs[TargetPath(k)] = fs0[TargetPath(k)]
        /\ \A k \in 1..(idx - 1) :
            Changed0(k) =>
                fs[TargetPath(k)] = Transformed[fs0[TargetPath(k)]]

\* C10 witness: the run stopped on a failure after it had rewritten an
\* earlier target, with a later target not reached.
C10_Witness ==
    /\ rpc = "raised"
    /\ idx > 1
    /\ idx < Len(Targets)
    /\ \E k \in 1..(idx - 1) :
        Changed0(k) /\ fs[TargetPath(k)] = Transformed[fs0[TargetPath(k)]]

====
